---- MODULE Spec2Model ----
(***************************************************************************)
(* State-machine model of the CMASIO local sidetone generator              *)
(* (ChannelMaster/sidetonegen.c): the file-scope state, the public API     *)
(* SidetoneGen_Initialize / Destroy / SetTXActive / SetCallbacks /         *)
(* Generate / IsActive, and the per-frame envelope and phase arithmetic.   *)
(*                                                                         *)
(* Numbers.  The envelope is kept as its numerator over FADE_SAMPLES, so   *)
(* the value e stands for e / FADE_SAMPLES (0 is 0.0, FADE_SAMPLES is      *)
(* 1.0).  The phase is kept in units of 2*pi / TwoPi, so TwoPi stands for  *)
(* 2.0 * M_PI; only frequency / sample-rate pairs whose phase increment is *)
(* a whole number of units are drawn.  A sample sin(ph) * vol * env is     *)
(* kept as the record of its three factors.                                *)
(*                                                                         *)
(* Specifications.  Spec: serialized calls, boolean transmit flag,         *)
(* frequencies below the sample rate.  SpecAnyFreq: the same, with a       *)
(* frequency callback that may return negative frequencies and frequencies *)
(* at or above the sample rate.  SpecRace: SetTXActive and Generate on two *)
(* threads, one source statement per step.  SpecPair: two runs given the   *)
(* same calls, differing in the enabled callback.                          *)
(***************************************************************************)
EXTENDS Integers, Sequences, FiniteSets

VARIABLES
    g_tx_active,     \* static int g_tx_active
    g_phase,         \* static double g_phase
    g_fade_state,    \* static int g_fade_state: 0 idle, 1 fade_in, 2 active, 3 fade_out
    g_fade_counter,  \* static int g_fade_counter
    g_buffer,        \* static double* g_buffer: NULL, or the number of doubles allocated
    g_blocksize,     \* static int g_blocksize
    g_getEnabled,    \* callback pointers: NULL or CALLBACK
    g_getFreq,
    g_getVolume,
    out,             \* the buffer the caller handed to the latest Generate call
    call,            \* the latest API call: its name, its return value, and what it was
                     \* given that the state it leaves does not show
    frame,           \* the latest frame synthesized since transmit was switched on or the state
                     \* was reset: its envelope and the fade state it was computed in
    edge,            \* the latest SetTXActive edge and the frames synthesized since
    osc,             \* frames synthesized since g_phase was last set to 0.0, and their phase increment
    audio,           \* the audio thread inside SidetoneGen_Generate: the line it is at and its locals
    host,            \* the host thread inside SidetoneGen_SetTXActive: the line it is at and its argument
    raced,           \* a SetTXActive call has overlapped a frame of Generate
    twin             \* a second run of the generator, given the same calls

prog == <<g_tx_active, g_phase, g_fade_state, g_fade_counter, g_buffer,
          g_blocksize, g_getEnabled, g_getFreq, g_getVolume>>
envl == <<g_phase, g_fade_state, g_fade_counter>>
cbs  == <<g_getEnabled, g_getFreq, g_getVolume>>
hist == <<frame, edge, osc>>
thr  == <<audio, host, raced>>
vars == <<prog, out, call, hist, thr, twin>>

----------------------------------------------------------------------------
(* Program constants and model bounds *)

FADE_SAMPLES == 48

NULL == 0
CALLBACK == 1

IDLE == 0
FADE_IN == 1
ACTIVE == 2
FADE_OUT == 3

TwoPi == 3          \* phase units in one turn
MaxN == 2           \* largest nsamples of one Generate call
MaxK == 6           \* frames the oscillator history counts before it gives up

\* the host initializes for its audio block, the most frames it asks for
BlockSizes == {MaxN}
NSamples == 0..MaxN
SampleRates == {TwoPi, 2 * TwoPi}
Volumes == {0, 1}
EnabledValues == {0, 1}
Pointers == {NULL, CALLBACK}
BoolArgs == {0, 1}
\* frequencies below the sample rate: 0 <= delta_phase < 2*pi
AudioFreqs == 0..(TwoPi - 1)
FreqsBelow(samplerate) == {f \in AudioFreqs : f < samplerate}

EdgeCap == FADE_SAMPLES + MaxN + 1

Min(a, b) == IF a < b THEN a ELSE b

----------------------------------------------------------------------------
(* The caller's output buffer *)

BufCells == 2 * MaxN
Unwritten == [ph |-> -1, vol |-> -1, env |-> -1]
Zero == [ph |-> 0, vol |-> 0, env |-> 0]
FreshBuffer == [c \in 1..BufCells |-> Unwritten]
NoBuffer == << >>   \* a NULL buffer pointer

Sample(ph, vol, env) == [ph |-> ph, vol |-> vol, env |-> env]

----------------------------------------------------------------------------
(* History values *)

NoCall == [op |-> "none", arg |-> << >>, ret |-> 0]
NoFrame == [env |-> -1, st |-> -1]
NoEdge == [kind |-> "none", from |-> 0, frames |-> 0]
OscStart == [k |-> 0, d |-> -1]
OscLost == [k |-> -1, d |-> -1]
AudioIdle == [pc |-> "idle", i |-> 0, n |-> 0, d |-> 0, vol |-> 0, ph |-> 0, env |-> 0]
HostIdle == [pc |-> "idle", arg |-> 0]
TwinInit == [tx |-> 0, phase |-> 0, fade_state |-> IDLE, fade_counter |-> 0,
             buffer |-> NULL, blocksize |-> 0,
             getEnabled |-> NULL, getFreq |-> NULL, getVolume |-> NULL,
             out |-> NoBuffer, ret |-> 0]

Init ==
    /\ g_tx_active = 0
    /\ g_phase = 0
    /\ g_fade_state = IDLE
    /\ g_fade_counter = 0
    /\ g_buffer = NULL
    /\ g_blocksize = 0
    /\ g_getEnabled = NULL
    /\ g_getFreq = NULL
    /\ g_getVolume = NULL
    /\ out = NoBuffer
    /\ call = NoCall
    /\ frame = NoFrame
    /\ edge = NoEdge
    /\ osc = OscStart
    /\ audio = AudioIdle
    /\ host = HostIdle
    /\ raced = FALSE
    /\ twin = TwinInit

----------------------------------------------------------------------------
(* SidetoneGen_Initialize *)

\* malloc0: a zeroed block of `size` doubles, or NULL when the allocation fails
malloc0(size, ok) == IF ok THEN size ELSE NULL

\* variant: a successful Initialize does not clear the transmit flag
SidetoneGen_Initialize_KeepsTX(blocksize, ok) ==
    LET buffer == malloc0(blocksize * 2, ok) IN
    /\ g_blocksize' = blocksize
    /\ g_buffer' = buffer
    /\ IF buffer = NULL
       THEN UNCHANGED <<g_tx_active, g_phase, g_fade_state, g_fade_counter, hist>>
       ELSE /\ UNCHANGED g_tx_active
            /\ g_phase' = 0
            /\ g_fade_state' = IDLE
            /\ g_fade_counter' = 0
            /\ frame' = NoFrame
            /\ edge' = NoEdge
            /\ osc' = OscStart
    /\ UNCHANGED cbs
    /\ out' = NoBuffer
    /\ call' = [op |-> "Initialize", arg |-> << >>, ret |-> 0]

SidetoneGen_Initialize(blocksize, ok) ==
    LET buffer == malloc0(blocksize * 2, ok) IN
    /\ g_blocksize' = blocksize
    /\ g_buffer' = buffer
    /\ IF buffer = NULL
       THEN UNCHANGED <<g_tx_active, g_phase, g_fade_state, g_fade_counter, hist>>
       ELSE /\ g_tx_active' = 0
            /\ g_phase' = 0
            /\ g_fade_state' = IDLE
            /\ g_fade_counter' = 0
            /\ frame' = NoFrame
            /\ edge' = NoEdge
            /\ osc' = OscStart
    /\ UNCHANGED cbs
    /\ out' = NoBuffer
    /\ call' = [op |-> "Initialize", arg |-> << >>, ret |-> 0]

----------------------------------------------------------------------------
(* SidetoneGen_Destroy *)

\* variant: the callbacks are not cleared
SidetoneGen_Destroy_KeepsCallbacks ==
    /\ g_buffer' = NULL
    /\ g_blocksize' = 0
    /\ g_tx_active' = 0
    /\ g_phase' = 0
    /\ g_fade_state' = IDLE
    /\ g_fade_counter' = 0
    /\ UNCHANGED cbs
    /\ frame' = NoFrame
    /\ edge' = NoEdge
    /\ osc' = OscStart
    /\ out' = NoBuffer
    /\ call' = [op |-> "Destroy", arg |-> << >>, ret |-> 0]

SidetoneGen_Destroy ==
    /\ g_buffer' = NULL
    /\ g_blocksize' = 0
    /\ g_tx_active' = 0
    /\ g_phase' = 0
    /\ g_fade_state' = IDLE
    /\ g_fade_counter' = 0
    /\ g_getEnabled' = NULL
    /\ g_getFreq' = NULL
    /\ g_getVolume' = NULL
    /\ frame' = NoFrame
    /\ edge' = NoEdge
    /\ osc' = OscStart
    /\ out' = NoBuffer
    /\ call' = [op |-> "Destroy", arg |-> << >>, ret |-> 0]

----------------------------------------------------------------------------
(* SidetoneGen_SetTXActive *)

\* variant: the early return is taken only for a repeated "off"
TXNoChange_OnlyWhenOff(tx_active) == g_tx_active = tx_active /\ tx_active = 0

\* if (g_tx_active == tx_active) return;
TXNoChange(tx_active) == g_tx_active = tx_active

\* variant: the phase is not reset when transmit is switched on
SidetoneGen_SetTXActive_KeepsPhase(tx_active) ==
    /\ IF TXNoChange(tx_active)
       THEN UNCHANGED <<g_tx_active, g_phase, g_fade_state, g_fade_counter, hist>>
       ELSE /\ g_tx_active' = tx_active
            /\ IF tx_active = 1
               THEN /\ g_fade_state' = FADE_IN
                    /\ g_fade_counter' = 0
                    /\ osc' = OscStart
                    /\ frame' = NoFrame
                    /\ edge' = [kind |-> "on", from |-> g_fade_state, frames |-> 0]
                    /\ UNCHANGED g_phase
               ELSE /\ g_fade_state' = FADE_OUT
                    /\ g_fade_counter' = 0
                    /\ edge' = [kind |-> "off", from |-> g_fade_state, frames |-> 0]
                    /\ UNCHANGED <<g_phase, osc, frame>>
    /\ UNCHANGED <<g_buffer, g_blocksize, cbs>>
    /\ out' = NoBuffer
    /\ call' = [op |-> "SetTXActive", arg |-> << >>, ret |-> 0]

\* variant: the counter is not reset when transmit is switched off
SidetoneGen_SetTXActive_KeepsCounter(tx_active) ==
    /\ IF TXNoChange(tx_active)
       THEN UNCHANGED <<g_tx_active, g_phase, g_fade_state, g_fade_counter, hist>>
       ELSE /\ g_tx_active' = tx_active
            /\ IF tx_active = 1
               THEN /\ g_phase' = 0
                    /\ g_fade_state' = FADE_IN
                    /\ g_fade_counter' = 0
                    /\ osc' = OscStart
                    /\ frame' = NoFrame
                    /\ edge' = [kind |-> "on", from |-> g_fade_state, frames |-> 0]
               ELSE /\ g_fade_state' = FADE_OUT
                    /\ edge' = [kind |-> "off", from |-> g_fade_state, frames |-> 0]
                    /\ UNCHANGED <<g_phase, g_fade_counter, osc, frame>>
    /\ UNCHANGED <<g_buffer, g_blocksize, cbs>>
    /\ out' = NoBuffer
    /\ call' = [op |-> "SetTXActive", arg |-> << >>, ret |-> 0]

SidetoneGen_SetTXActive(tx_active) ==
    /\ IF TXNoChange(tx_active)
       THEN UNCHANGED <<g_tx_active, g_phase, g_fade_state, g_fade_counter, hist>>
       ELSE /\ g_tx_active' = tx_active
            /\ IF tx_active = 1
               THEN /\ g_phase' = 0
                    /\ g_fade_state' = FADE_IN
                    /\ g_fade_counter' = 0
                    /\ osc' = OscStart
                    /\ frame' = NoFrame
                    /\ edge' = [kind |-> "on", from |-> g_fade_state, frames |-> 0]
               ELSE /\ g_fade_state' = FADE_OUT
                    /\ g_fade_counter' = 0
                    /\ edge' = [kind |-> "off", from |-> g_fade_state, frames |-> 0]
                    /\ UNCHANGED <<g_phase, osc, frame>>
    /\ UNCHANGED <<g_buffer, g_blocksize, cbs>>
    /\ out' = NoBuffer
    /\ call' = [op |-> "SetTXActive", arg |-> << >>, ret |-> 0]

----------------------------------------------------------------------------
(* SidetoneGen_SetCallbacks *)

SidetoneGen_SetCallbacks(getEnabled, getFreq, getVolume) ==
    /\ g_getEnabled' = getEnabled
    /\ g_getFreq' = getFreq
    /\ g_getVolume' = getVolume
    /\ UNCHANGED <<g_tx_active, g_phase, g_fade_state, g_fade_counter,
                   g_buffer, g_blocksize, hist>>
    /\ out' = NoBuffer
    /\ call' = [op |-> "SetCallbacks", arg |-> << >>, ret |-> 0]

----------------------------------------------------------------------------
(* SidetoneGen_Generate *)

\* variant: the safety check looks at the caller's buffer only
GenerateRefuses_BufferOnly(buffer) == buffer = NoBuffer

\* if (buffer == NULL || g_buffer == NULL) return;
GenerateRefuses(buffer) == buffer = NoBuffer \/ g_buffer = NULL

\* variant: silence only when both callbacks are missing
ProvidersMissing_Both == g_getFreq = NULL /\ g_getVolume = NULL

\* if (g_getFreq == NULL || g_getVolume == NULL)
ProvidersMissing == g_getFreq = NULL \/ g_getVolume = NULL

\* memset(buffer, 0, nsamples * 2 * sizeof(double))
Memset0(buf, nsamples) ==
    [c \in DOMAIN buf |-> IF c <= nsamples * 2 THEN Zero ELSE buf[c]]

\* delta_phase = 2.0 * M_PI * freq / (double)samplerate
DeltaPhase(freq, samplerate) == (TwoPi * freq) \div samplerate
WholeDelta(freq, samplerate) == (TwoPi * freq) % samplerate = 0

\* variant: the fade-in ramp starts one step up
FadeStep_RampOffByOne(st, cnt) ==
    IF st = FADE_IN
    THEN [env |-> cnt + 1,
          cnt |-> cnt + 1,
          st  |-> IF cnt + 1 >= FADE_SAMPLES THEN ACTIVE ELSE FADE_IN]
    ELSE IF st = FADE_OUT
    THEN IF cnt + 1 >= FADE_SAMPLES
         THEN [env |-> 0, cnt |-> cnt + 1, st |-> IDLE]
         ELSE [env |-> FADE_SAMPLES - cnt, cnt |-> cnt + 1, st |-> FADE_OUT]
    ELSE IF st = IDLE
    THEN [env |-> 0, cnt |-> cnt, st |-> st]
    ELSE [env |-> FADE_SAMPLES, cnt |-> cnt, st |-> st]

\* variant: the last fade-out frame keeps its ramp value (no envelope = 0.0)
FadeStep_NoForcedZero(st, cnt) ==
    IF st = FADE_IN
    THEN [env |-> cnt,
          cnt |-> cnt + 1,
          st  |-> IF cnt + 1 >= FADE_SAMPLES THEN ACTIVE ELSE FADE_IN]
    ELSE IF st = FADE_OUT
    THEN [env |-> FADE_SAMPLES - cnt,
          cnt |-> cnt + 1,
          st  |-> IF cnt + 1 >= FADE_SAMPLES THEN IDLE ELSE FADE_OUT]
    ELSE IF st = IDLE
    THEN [env |-> 0, cnt |-> cnt, st |-> st]
    ELSE [env |-> FADE_SAMPLES, cnt |-> cnt, st |-> st]

\* variant: the idle branch is missing, so an idle frame keeps envelope 1.0
FadeStep_IdleAudible(st, cnt) ==
    IF st = FADE_IN
    THEN [env |-> cnt,
          cnt |-> cnt + 1,
          st  |-> IF cnt + 1 >= FADE_SAMPLES THEN ACTIVE ELSE FADE_IN]
    ELSE IF st = FADE_OUT
    THEN IF cnt + 1 >= FADE_SAMPLES
         THEN [env |-> 0, cnt |-> cnt + 1, st |-> IDLE]
         ELSE [env |-> FADE_SAMPLES - cnt, cnt |-> cnt + 1, st |-> FADE_OUT]
    ELSE [env |-> FADE_SAMPLES, cnt |-> cnt, st |-> st]

\* variant: a fade ends one frame late (counter > FADE_SAMPLES)
FadeStep_LateThreshold(st, cnt) ==
    IF st = FADE_IN
    THEN [env |-> cnt,
          cnt |-> cnt + 1,
          st  |-> IF cnt + 1 > FADE_SAMPLES THEN ACTIVE ELSE FADE_IN]
    ELSE IF st = FADE_OUT
    THEN IF cnt + 1 > FADE_SAMPLES
         THEN [env |-> 0, cnt |-> cnt + 1, st |-> IDLE]
         ELSE [env |-> FADE_SAMPLES - cnt, cnt |-> cnt + 1, st |-> FADE_OUT]
    ELSE IF st = IDLE
    THEN [env |-> 0, cnt |-> cnt, st |-> st]
    ELSE [env |-> FADE_SAMPLES, cnt |-> cnt, st |-> st]

\* the envelope of one frame and the fade state and counter it leaves
FadeStep(st, cnt) ==
    IF st = FADE_IN
    THEN [env |-> cnt,
          cnt |-> cnt + 1,
          st  |-> IF cnt + 1 >= FADE_SAMPLES THEN ACTIVE ELSE FADE_IN]
    ELSE IF st = FADE_OUT
    THEN IF cnt + 1 >= FADE_SAMPLES
         THEN [env |-> 0, cnt |-> cnt + 1, st |-> IDLE]
         ELSE [env |-> FADE_SAMPLES - cnt, cnt |-> cnt + 1, st |-> FADE_OUT]
    ELSE IF st = IDLE
    THEN [env |-> 0, cnt |-> cnt, st |-> st]
    ELSE [env |-> FADE_SAMPLES, cnt |-> cnt, st |-> st]

\* variant: the wrap test is > instead of >=
WrapPhase_Strict(ph) == IF ph > TwoPi THEN ph - TwoPi ELSE ph

\* variant: the phase is never wrapped
WrapPhase_Never(ph) == ph

\* g_phase += delta_phase; if (g_phase >= 2.0 * M_PI) g_phase -= 2.0 * M_PI;
WrapPhase(ph) == IF ph >= TwoPi THEN ph - TwoPi ELSE ph

\* variant: only the left channel of each frame is written
GenFrame_LeftOnly(s, i, delta_phase, volume) ==
    LET f == FadeStep(s.fade_state, s.fade_counter)
        sample == Sample(s.phase, volume, f.env)
    IN [phase        |-> WrapPhase(s.phase + delta_phase),
        fade_state   |-> f.st,
        fade_counter |-> f.cnt,
        buf          |-> [s.buf EXCEPT ![2 * i + 1] = sample],
        last         |-> [env |-> f.env, st |-> s.fade_state]]

\* the body of the loop for frame i (0-based): s holds g_phase, g_fade_state,
\* g_fade_counter and the caller's buffer
GenFrame(s, i, delta_phase, volume) ==
    LET f == FadeStep(s.fade_state, s.fade_counter)
        sample == Sample(s.phase, volume, f.env)
    IN [phase        |-> WrapPhase(s.phase + delta_phase),
        fade_state   |-> f.st,
        fade_counter |-> f.cnt,
        buf          |-> [s.buf EXCEPT ![2 * i + 1] = sample, ![2 * i + 2] = sample],
        last         |-> [env |-> f.env, st |-> s.fade_state]]

\* for (int i = 0; i < nsamples; i++)
RECURSIVE GenLoop(_, _, _, _, _)
GenLoop(s, i, nsamples, delta_phase, volume) ==
    IF i < nsamples
    THEN GenLoop(GenFrame(s, i, delta_phase, volume), i + 1, nsamples, delta_phase, volume)
    ELSE s

\* the oscillator history after n more frames with increment delta_phase
OscAdvance(o, n, delta_phase) ==
    IF n = 0 THEN o
    ELSE IF o.k >= 0 /\ (o.k = 0 \/ o.d = delta_phase) /\ o.k + n <= MaxK
    THEN [k |-> o.k + n, d |-> delta_phase]
    ELSE OscLost

\* buffer is NoBuffer (NULL) or a fresh caller buffer; freq and volume are
\* what g_getFreq() and g_getVolume() return, drawn from freqs and Volumes
\* when the code calls them; the call history keeps nsamples and, when the
\* frame loop runs, delta_phase and volume
SidetoneGen_Generate(buffer, nsamples, samplerate, freqs) ==
    /\ UNCHANGED <<g_tx_active, g_buffer, g_blocksize, cbs>>
    /\ IF GenerateRefuses(buffer)
       THEN /\ out' = buffer
            /\ call' = [op |-> "Generate", arg |-> <<nsamples>>, ret |-> 0]
            /\ UNCHANGED <<envl, hist>>
       ELSE IF ProvidersMissing
       THEN /\ out' = Memset0(buffer, nsamples)
            /\ call' = [op |-> "Generate", arg |-> <<nsamples>>, ret |-> 0]
            /\ UNCHANGED <<envl, hist>>
       ELSE \E freq \in freqs, volume \in Volumes :
            /\ WholeDelta(freq, samplerate)
            /\ LET delta_phase == DeltaPhase(freq, samplerate)
                   s0 == [phase |-> g_phase, fade_state |-> g_fade_state,
                          fade_counter |-> g_fade_counter, buf |-> buffer, last |-> frame]
                   s  == GenLoop(s0, 0, nsamples, delta_phase, volume)
               IN /\ g_phase' = s.phase
                  /\ g_fade_state' = s.fade_state
                  /\ g_fade_counter' = s.fade_counter
                  /\ out' = s.buf
                  /\ call' = [op |-> "Generate", arg |-> <<nsamples, delta_phase, volume>>, ret |-> 0]
                  /\ frame' = s.last
                  /\ edge' = [edge EXCEPT !.frames = Min(@ + nsamples, EdgeCap)]
                  /\ osc' = OscAdvance(osc, nsamples, delta_phase)

----------------------------------------------------------------------------
(* SidetoneGen_IsActive *)

\* variant: the transmit flag is not consulted
IsActiveResult_IgnoresTX(enabled) == IF g_getEnabled # NULL THEN enabled ELSE 0

\* the return value; enabled is what g_getEnabled() returns when it is called
IsActiveResult(enabled) ==
    IF g_tx_active = 0 THEN 0
    ELSE IF g_getEnabled # NULL THEN enabled
    ELSE 0

SidetoneGen_IsActive(enabled) ==
    /\ call' = [op  |-> "IsActive",
                arg |-> IF g_tx_active # 0 /\ g_getEnabled # NULL THEN <<enabled>> ELSE << >>,
                ret |-> IsActiveResult(enabled)]
    /\ out' = NoBuffer
    /\ UNCHANGED <<prog, hist>>

----------------------------------------------------------------------------
(* The host: serialized calls, boolean transmit flag, audio-range frequencies. *)
(* Every call runs from entry to return as one step, so no thread is ever     *)
(* inside a call.                                                             *)

Initialize ==
    /\ \E blocksize \in BlockSizes, ok \in BOOLEAN : SidetoneGen_Initialize(blocksize, ok)
    /\ UNCHANGED <<thr, twin>>
Destroy ==
    /\ SidetoneGen_Destroy
    /\ UNCHANGED <<thr, twin>>
SetTXActive ==
    /\ \E tx_active \in BoolArgs : SidetoneGen_SetTXActive(tx_active)
    /\ UNCHANGED <<thr, twin>>
SetCallbacks ==
    /\ \E e \in Pointers, f \in Pointers, v \in Pointers : SidetoneGen_SetCallbacks(e, f, v)
    /\ UNCHANGED <<thr, twin>>
Generate ==
    /\ \E buffer \in {NoBuffer, FreshBuffer}, nsamples \in NSamples, samplerate \in SampleRates :
          SidetoneGen_Generate(buffer, nsamples, samplerate, FreqsBelow(samplerate))
    /\ UNCHANGED <<thr, twin>>
IsActive ==
    /\ \E enabled \in EnabledValues : SidetoneGen_IsActive(enabled)
    /\ UNCHANGED <<thr, twin>>

Next == Initialize \/ Destroy \/ SetTXActive \/ SetCallbacks \/ Generate \/ IsActive

Spec == Init /\ [][Next]_vars

----------------------------------------------------------------------------
(* The host with a frequency provider that returns anything: negative       *)
(* frequencies, zero, and frequencies up to twice the sample rate.  The     *)
(* phase then has no bound of its own; calls that would take it further     *)
(* than PhaseCap from 0 are left out.                                       *)

\* the frequencies whose phase increment is -1, 0, 1, TwoPi or TwoPi + 1 units
AnyFreqs(samplerate) == {(samplerate \div TwoPi) * d : d \in {0 - 1, 0, 1, TwoPi, TwoPi + 1}}
PhaseCap == TwoPi + 1

RegisterAll ==
    /\ SidetoneGen_SetCallbacks(CALLBACK, CALLBACK, CALLBACK)
    /\ UNCHANGED <<thr, twin>>
GenerateAnyFreq ==
    /\ \E nsamples \in NSamples, samplerate \in SampleRates :
          /\ SidetoneGen_Generate(FreshBuffer, nsamples, samplerate, AnyFreqs(samplerate))
          /\ g_phase' \in (0 - PhaseCap)..PhaseCap
    /\ UNCHANGED <<thr, twin>>

NextAnyFreq == Initialize \/ Destroy \/ SetTXActive \/ RegisterAll \/ GenerateAnyFreq \/ IsActive

SpecAnyFreq == Init /\ [][NextAnyFreq]_vars

----------------------------------------------------------------------------
(* Unserialized calls: SidetoneGen_SetTXActive on the host thread while     *)
(* SidetoneGen_Generate runs on the audio thread, with no lock between      *)
(* them.  Each thread takes one source statement at a time, a statement     *)
(* being one step; the steps are named after the line of sidetonegen.c they *)
(* execute.  The generator is initialized and its callbacks are registered  *)
(* before the threads start.  The two threads run serialized, a whole       *)
(* SetTXActive call between two frames, except that once in a run one       *)
(* SetTXActive call and one frame may overlap, their statements interleaved *)
(* in any order.  Generate is called for one frame at a time.  The frame    *)
(* and oscillator histories are not kept here; edge counts the frames       *)
(* finished since the flag was written.                                     *)

InitRace ==
    /\ g_tx_active = 0
    /\ g_phase = 0
    /\ g_fade_state = IDLE
    /\ g_fade_counter = 0
    /\ g_buffer = malloc0(MaxN * 2, TRUE)
    /\ g_blocksize = MaxN
    /\ g_getEnabled = CALLBACK
    /\ g_getFreq = CALLBACK
    /\ g_getVolume = CALLBACK
    /\ out = NoBuffer
    /\ call = [op |-> "SetCallbacks", arg |-> << >>, ret |-> 0]
    /\ frame = NoFrame
    /\ edge = NoEdge
    /\ osc = OscStart
    /\ audio = AudioIdle
    /\ host = HostIdle
    /\ raced = FALSE
    /\ twin = TwinInit

\* the audio thread is between two frames, or outside Generate
BetweenFrames == audio.pc \in {"idle", "L142"}

\* a step of the host thread: it overlaps a frame when the audio thread is inside one
HostStep(pc) ==
    /\ host.pc = pc
    /\ raced' = (raced \/ ~BetweenFrames)
    /\ UNCHANGED <<audio, g_buffer, g_blocksize, cbs, out, frame, osc, twin>>

\* a step of the audio thread inside a frame: it overlaps a SetTXActive call
\* when the host thread is inside one
AudioStep(pc) ==
    /\ audio.pc = pc
    /\ raced' = (raced \/ host.pc # "idle")
    /\ UNCHANGED <<host, g_tx_active, g_buffer, g_blocksize, cbs, call, frame, osc, twin>>

\* the audio thread moves to line pc
AudioAt(pc) == audio' = [audio EXCEPT !.pc = pc]

\* the end of the loop body: i++, back to the loop test
AudioNextFrame == audio' = [audio EXCEPT !.pc = "L142", !.i = @ + 1, !.ph = 0, !.env = 0]

\* host thread, line 89: if (g_tx_active == tx_active) return;
TX_L89(tx_active) ==
    /\ HostStep("idle")
    /\ BetweenFrames \/ ~raced
    /\ IF TXNoChange(tx_active)
       THEN /\ host' = HostIdle
            /\ call' = [op |-> "SetTXActive", arg |-> << >>, ret |-> 0]
       ELSE /\ host' = [pc |-> "L91", arg |-> tx_active]
            /\ UNCHANGED call
    /\ UNCHANGED <<g_tx_active, envl, edge>>

\* line 91: g_tx_active = tx_active; line 93: if (tx_active == 1)
TX_L91 ==
    /\ HostStep("L91")
    /\ g_tx_active' = host.arg
    /\ edge' = [kind |-> IF host.arg = 1 THEN "on" ELSE "off", from |-> g_fade_state, frames |-> 0]
    /\ host' = [host EXCEPT !.pc = IF host.arg = 1 THEN "L95" ELSE "L103"]
    /\ UNCHANGED <<envl, call>>

\* line 95: g_phase = 0.0
TX_L95 ==
    /\ HostStep("L95")
    /\ g_phase' = 0
    /\ host' = [host EXCEPT !.pc = "L96"]
    /\ UNCHANGED <<g_tx_active, g_fade_state, g_fade_counter, edge, call>>

\* line 96: g_fade_state = 1
TX_L96 ==
    /\ HostStep("L96")
    /\ g_fade_state' = FADE_IN
    /\ host' = [host EXCEPT !.pc = "L97"]
    /\ UNCHANGED <<g_tx_active, g_phase, g_fade_counter, edge, call>>

\* line 97: g_fade_counter = 0, and return
TX_L97 ==
    /\ HostStep("L97")
    /\ g_fade_counter' = 0
    /\ host' = HostIdle
    /\ call' = [op |-> "SetTXActive", arg |-> << >>, ret |-> 0]
    /\ UNCHANGED <<g_tx_active, g_phase, g_fade_state, edge>>

\* variant: the off branch does not write the fade state
TX_L103_NoWrite ==
    /\ HostStep("L103")
    /\ host' = [host EXCEPT !.pc = "L104"]
    /\ UNCHANGED <<g_tx_active, g_phase, g_fade_state, g_fade_counter, edge, call>>

\* line 103: g_fade_state = 3
TX_L103 ==
    /\ HostStep("L103")
    /\ g_fade_state' = FADE_OUT
    /\ host' = [host EXCEPT !.pc = "L104"]
    /\ UNCHANGED <<g_tx_active, g_phase, g_fade_counter, edge, call>>

\* line 104: g_fade_counter = 0, and return
TX_L104 ==
    /\ HostStep("L104")
    /\ g_fade_counter' = 0
    /\ host' = HostIdle
    /\ call' = [op |-> "SetTXActive", arg |-> << >>, ret |-> 0]
    /\ UNCHANGED <<g_tx_active, g_phase, g_fade_state, edge>>

\* audio thread, lines 124-139: the checks pass, the callbacks are called,
\* delta_phase is computed; none of it is shared with SetTXActive
Gen_Enter(nsamples, samplerate) ==
    /\ audio.pc = "idle"
    /\ ~GenerateRefuses(FreshBuffer)
    /\ ~ProvidersMissing
    /\ \E freq \in FreqsBelow(samplerate), volume \in Volumes :
         /\ WholeDelta(freq, samplerate)
         /\ audio' = [pc |-> "L142", i |-> 0, n |-> nsamples,
                      d |-> DeltaPhase(freq, samplerate), vol |-> volume, ph |-> 0, env |-> 0]
    /\ out' = FreshBuffer
    /\ UNCHANGED <<prog, call, hist, host, raced, twin>>

\* line 142, loop test failed: return
Gen_Return ==
    /\ audio.pc = "L142"
    /\ ~(audio.i < audio.n)
    /\ audio' = AudioIdle
    /\ call' = [op |-> "Generate", arg |-> <<audio.n, audio.d, audio.vol>>, ret |-> 0]
    /\ UNCHANGED <<prog, out, hist, host, raced, twin>>

\* line 142, loop test passed; line 145: sample = sin(g_phase) * volume;
\* line 148: envelope = 1.0
Gen_L145 ==
    /\ AudioStep("L142")
    /\ audio.i < audio.n
    /\ host.pc = "idle" \/ ~raced
    /\ audio' = [audio EXCEPT !.pc = "L150", !.ph = g_phase, !.env = FADE_SAMPLES]
    /\ UNCHANGED <<envl, out, edge>>

\* line 150: if (g_fade_state == 1)
Gen_L150 ==
    /\ AudioStep("L150")
    /\ AudioAt(IF g_fade_state = FADE_IN THEN "L152" ELSE "L158")
    /\ UNCHANGED <<envl, out, edge>>

\* line 152: envelope = g_fade_counter / FADE_SAMPLES
Gen_L152 ==
    /\ AudioStep("L152")
    /\ audio' = [audio EXCEPT !.pc = "L153", !.env = g_fade_counter]
    /\ UNCHANGED <<envl, out, edge>>

\* line 153: g_fade_counter++
Gen_L153 ==
    /\ AudioStep("L153")
    /\ g_fade_counter' = g_fade_counter + 1
    /\ AudioAt("L154")
    /\ UNCHANGED <<g_phase, g_fade_state, out, edge>>

\* line 154: if (g_fade_counter >= FADE_SAMPLES)
Gen_L154 ==
    /\ AudioStep("L154")
    /\ AudioAt(IF g_fade_counter >= FADE_SAMPLES THEN "L155" ELSE "L173")
    /\ UNCHANGED <<envl, out, edge>>

\* line 155: g_fade_state = 2
Gen_L155 ==
    /\ AudioStep("L155")
    /\ g_fade_state' = ACTIVE
    /\ AudioAt("L173")
    /\ UNCHANGED <<g_phase, g_fade_counter, out, edge>>

\* line 158: else if (g_fade_state == 3)
Gen_L158 ==
    /\ AudioStep("L158")
    /\ AudioAt(IF g_fade_state = FADE_OUT THEN "L160" ELSE "L167")
    /\ UNCHANGED <<envl, out, edge>>

\* line 160: envelope = 1.0 - g_fade_counter / FADE_SAMPLES
Gen_L160 ==
    /\ AudioStep("L160")
    /\ audio' = [audio EXCEPT !.pc = "L161", !.env = FADE_SAMPLES - g_fade_counter]
    /\ UNCHANGED <<envl, out, edge>>

\* line 161: g_fade_counter++
Gen_L161 ==
    /\ AudioStep("L161")
    /\ g_fade_counter' = g_fade_counter + 1
    /\ AudioAt("L162")
    /\ UNCHANGED <<g_phase, g_fade_state, out, edge>>

\* line 162: if (g_fade_counter >= FADE_SAMPLES)
Gen_L162 ==
    /\ AudioStep("L162")
    /\ AudioAt(IF g_fade_counter >= FADE_SAMPLES THEN "L163" ELSE "L173")
    /\ UNCHANGED <<envl, out, edge>>

\* line 163: g_fade_state = 0; line 164: envelope = 0.0
Gen_L163 ==
    /\ AudioStep("L163")
    /\ g_fade_state' = IDLE
    /\ audio' = [audio EXCEPT !.pc = "L173", !.env = 0]
    /\ UNCHANGED <<g_phase, g_fade_counter, out, edge>>

\* line 167: else if (g_fade_state == 0) envelope = 0.0
Gen_L167 ==
    /\ AudioStep("L167")
    /\ audio' = [audio EXCEPT !.pc = "L173", !.env = IF g_fade_state = IDLE THEN 0 ELSE @]
    /\ UNCHANGED <<envl, out, edge>>

\* lines 173-177: the frame is written; line 180: g_phase += delta_phase
Gen_L180 ==
    /\ AudioStep("L173")
    /\ out' = [out EXCEPT ![2 * audio.i + 1] = Sample(audio.ph, audio.vol, audio.env),
                          ![2 * audio.i + 2] = Sample(audio.ph, audio.vol, audio.env)]
    /\ g_phase' = g_phase + audio.d
    /\ edge' = [edge EXCEPT !.frames = Min(@ + 1, EdgeCap)]
    /\ AudioAt("L181")
    /\ UNCHANGED <<g_fade_state, g_fade_counter>>

\* line 181: if (g_phase >= 2.0 * M_PI)
Gen_L181 ==
    /\ AudioStep("L181")
    /\ IF g_phase >= TwoPi THEN AudioAt("L182") ELSE AudioNextFrame
    /\ UNCHANGED <<envl, out, edge>>

\* line 182: g_phase -= 2.0 * M_PI
Gen_L182 ==
    /\ AudioStep("L182")
    /\ g_phase' = g_phase - TwoPi
    /\ AudioNextFrame
    /\ UNCHANGED <<g_fade_state, g_fade_counter, out, edge>>

HostThread ==
    \/ \E tx_active \in BoolArgs : TX_L89(tx_active)
    \/ TX_L91 \/ TX_L95 \/ TX_L96 \/ TX_L97 \/ TX_L103 \/ TX_L104

AudioThread ==
    \/ \E samplerate \in SampleRates : Gen_Enter(1, samplerate)
    \/ Gen_Return \/ Gen_L145 \/ Gen_L150
    \/ Gen_L152 \/ Gen_L153 \/ Gen_L154 \/ Gen_L155
    \/ Gen_L158 \/ Gen_L160 \/ Gen_L161 \/ Gen_L162 \/ Gen_L163
    \/ Gen_L167 \/ Gen_L180 \/ Gen_L181 \/ Gen_L182

NextRace == HostThread \/ AudioThread

SpecRace == InitRace /\ [][NextRace]_vars

----------------------------------------------------------------------------
(* Two runs side by side.  The second run, kept in twin, is given the same  *)
(* calls as the first, with the same allocation results and the same        *)
(* frequency and volume values; the two may differ in the enabled callback  *)
(* that is registered and in what it returns.  Each operation is written    *)
(* once more as a function from the second run's state to its next state.  *)

Twin_Initialize(t, blocksize, ok) ==
    LET buffer == malloc0(blocksize * 2, ok) IN
    IF buffer = NULL
    THEN [t EXCEPT !.blocksize = blocksize, !.buffer = buffer, !.out = NoBuffer, !.ret = 0]
    ELSE [t EXCEPT !.blocksize = blocksize, !.buffer = buffer,
                   !.tx = 0, !.phase = 0, !.fade_state = IDLE, !.fade_counter = 0,
                   !.out = NoBuffer, !.ret = 0]

Twin_Destroy(t) == TwinInit

Twin_SetTXActive(t, tx_active) ==
    IF t.tx = tx_active
    THEN [t EXCEPT !.out = NoBuffer, !.ret = 0]
    ELSE IF tx_active = 1
    THEN [t EXCEPT !.tx = tx_active, !.phase = 0, !.fade_state = FADE_IN, !.fade_counter = 0,
                   !.out = NoBuffer, !.ret = 0]
    ELSE [t EXCEPT !.tx = tx_active, !.fade_state = FADE_OUT, !.fade_counter = 0,
                   !.out = NoBuffer, !.ret = 0]

Twin_SetCallbacks(t, getEnabled, getFreq, getVolume) ==
    [t EXCEPT !.getEnabled = getEnabled, !.getFreq = getFreq, !.getVolume = getVolume,
              !.out = NoBuffer, !.ret = 0]

\* variant: Generate writes silence when no enabled callback is registered
Twin_Generate_Gated(t, buffer, nsamples, delta_phase, volume) ==
    IF buffer = NoBuffer \/ t.buffer = NULL
    THEN [t EXCEPT !.out = buffer, !.ret = 0]
    ELSE IF t.getFreq = NULL \/ t.getVolume = NULL \/ t.getEnabled = NULL
    THEN [t EXCEPT !.out = Memset0(buffer, nsamples), !.ret = 0]
    ELSE LET s0 == [phase |-> t.phase, fade_state |-> t.fade_state,
                    fade_counter |-> t.fade_counter, buf |-> buffer, last |-> NoFrame]
             s  == GenLoop(s0, 0, nsamples, delta_phase, volume)
         IN [t EXCEPT !.phase = s.phase, !.fade_state = s.fade_state,
                      !.fade_counter = s.fade_counter, !.out = s.buf, !.ret = 0]

Twin_Generate(t, buffer, nsamples, delta_phase, volume) ==
    IF buffer = NoBuffer \/ t.buffer = NULL
    THEN [t EXCEPT !.out = buffer, !.ret = 0]
    ELSE IF t.getFreq = NULL \/ t.getVolume = NULL
    THEN [t EXCEPT !.out = Memset0(buffer, nsamples), !.ret = 0]
    ELSE LET s0 == [phase |-> t.phase, fade_state |-> t.fade_state,
                    fade_counter |-> t.fade_counter, buf |-> buffer, last |-> NoFrame]
             s  == GenLoop(s0, 0, nsamples, delta_phase, volume)
         IN [t EXCEPT !.phase = s.phase, !.fade_state = s.fade_state,
                      !.fade_counter = s.fade_counter, !.out = s.buf, !.ret = 0]

Twin_IsActive(t, enabled) ==
    [t EXCEPT !.out = NoBuffer,
              !.ret = IF t.tx = 0 THEN 0
                      ELSE IF t.getEnabled # NULL THEN enabled
                      ELSE 0]

PairInitialize ==
    /\ \E blocksize \in BlockSizes, ok \in BOOLEAN :
         /\ SidetoneGen_Initialize(blocksize, ok)
         /\ twin' = Twin_Initialize(twin, blocksize, ok)
    /\ UNCHANGED thr
PairDestroy ==
    /\ SidetoneGen_Destroy
    /\ twin' = Twin_Destroy(twin)
    /\ UNCHANGED thr
PairSetTXActive ==
    /\ \E tx_active \in BoolArgs :
         /\ SidetoneGen_SetTXActive(tx_active)
         /\ twin' = Twin_SetTXActive(twin, tx_active)
    /\ UNCHANGED thr
\* the enabled callback registered in the two runs need not be the same;
\* the frequency and volume callbacks are registered together here
PairSetCallbacks ==
    /\ \E e1 \in Pointers, e2 \in Pointers, fv \in Pointers :
         /\ SidetoneGen_SetCallbacks(e1, fv, fv)
         /\ twin' = Twin_SetCallbacks(twin, e2, fv, fv)
    /\ UNCHANGED thr
\* the frequency and volume callbacks return the same values in the two
\* runs; one sample rate and its two lowest frequencies are enough here
PairGenerate ==
    /\ \E nsamples \in NSamples, freq \in {0, 1}, volume \in Volumes :
         /\ SidetoneGen_Generate(FreshBuffer, nsamples, TwoPi, {freq})
         /\ Len(call'.arg) = 3 => call'.arg[3] = volume
         /\ twin' = Twin_Generate(twin, FreshBuffer, nsamples, DeltaPhase(freq, TwoPi), volume)
    /\ UNCHANGED thr
\* what the enabled callback returns in the two runs need not be the same
PairIsActive ==
    /\ \E en1 \in EnabledValues, en2 \in EnabledValues :
         /\ SidetoneGen_IsActive(en1)
         /\ twin' = Twin_IsActive(twin, en2)
    /\ UNCHANGED thr

NextPair ==
    \/ PairInitialize \/ PairDestroy \/ PairSetTXActive
    \/ PairSetCallbacks \/ PairGenerate \/ PairIsActive

SpecPair == Init /\ [][NextPair]_vars

----------------------------------------------------------------------------
(* Reading the latest call *)

\* the latest call was a Generate that ran the frame loop
Synthesized ==
    /\ call.op = "Generate"
    /\ out # NoBuffer
    /\ g_buffer # NULL
    /\ g_getFreq # NULL
    /\ g_getVolume # NULL

\* the cells of the caller's buffer the latest Generate wrote, and its frames
Written == {c \in DOMAIN out : out[c] # Unwritten}
Frames == Cardinality(Written) \div 2

\* the envelope of frame j (1-based) of the latest Generate
EnvOf(j) == out[2 * j - 1].env

\* the index, counted from the latest edge, of frame j of the latest Generate
IndexOf(j) == edge.frames - Frames + (j - 1)

----------------------------------------------------------------------------
(* C1  Fade-in ramp.  After a false-to-true SetTXActive issued in Idle, the *)
(* i-th frame synthesized afterwards (0-based, over any split into Generate *)
(* calls) has envelope i / FADE_SAMPLES for i < FADE_SAMPLES; once          *)
(* FADE_SAMPLES frames are synthesized the fade state is active (Sustain),  *)
(* and frame number FADE_SAMPLES has envelope exactly 1.                    *)
FadeInRamp ==
    (edge.kind = "on" /\ edge.from = IDLE /\ edge.frames < EdgeCap) =>
        /\ Synthesized =>
             \A j \in 1..Frames :
                 /\ IndexOf(j) < FADE_SAMPLES => EnvOf(j) = IndexOf(j)
                 /\ IndexOf(j) = FADE_SAMPLES => EnvOf(j) = FADE_SAMPLES
        /\ edge.frames < FADE_SAMPLES => g_fade_state = FADE_IN
        /\ edge.frames >= FADE_SAMPLES => g_fade_state = ACTIVE

\* frame number FADE_SAMPLES of a fade-in started in Idle has just been written
FadeInRampWitness ==
    /\ Synthesized
    /\ edge.kind = "on" /\ edge.from = IDLE
    /\ edge.frames = FADE_SAMPLES + 1
    /\ Frames = MaxN
    /\ EnvOf(Frames) = FADE_SAMPLES
    /\ EnvOf(Frames - 1) = FADE_SAMPLES - 1
    /\ g_fade_state = ACTIVE

----------------------------------------------------------------------------
(* C2  Fade-out ramp as first stated: after a true-to-false SetTXActive     *)
(* issued in Sustain, the i-th frame synthesized afterwards has envelope    *)
(* 1 - i / FADE_SAMPLES for every i < FADE_SAMPLES, frame FADE_SAMPLES - 1  *)
(* included; at i = FADE_SAMPLES the envelope is 0 and the state Idle.      *)
FadeOutRampSymmetric ==
    (edge.kind = "off" /\ edge.from = ACTIVE /\ edge.frames < EdgeCap) =>
        /\ Synthesized =>
             \A j \in 1..Frames :
                 /\ IndexOf(j) < FADE_SAMPLES => EnvOf(j) = FADE_SAMPLES - IndexOf(j)
                 /\ IndexOf(j) = FADE_SAMPLES => EnvOf(j) = 0
        /\ edge.frames >= FADE_SAMPLES => g_fade_state = IDLE

(* C2  Fade-out ramp, amended: the i-th frame after the edge has envelope   *)
(* 1 - i / FADE_SAMPLES for i < FADE_SAMPLES - 1; frame FADE_SAMPLES - 1 is *)
(* the frame in which the counter reaches FADE_SAMPLES, and it is written   *)
(* with envelope exactly 0; the state is FadeOut until FADE_SAMPLES frames  *)
(* are synthesized and Idle from then on, with envelope 0.                  *)
FadeOutRamp ==
    (edge.kind = "off" /\ edge.from = ACTIVE /\ edge.frames < EdgeCap) =>
        /\ Synthesized =>
             \A j \in 1..Frames :
                 /\ IndexOf(j) < FADE_SAMPLES - 1 => EnvOf(j) = FADE_SAMPLES - IndexOf(j)
                 /\ IndexOf(j) >= FADE_SAMPLES - 1 => EnvOf(j) = 0
        /\ edge.frames < FADE_SAMPLES => g_fade_state = FADE_OUT
        /\ edge.frames >= FADE_SAMPLES => g_fade_state = IDLE

\* the last frame of a fade-out started in Sustain has just been written
FadeOutRampWitness ==
    /\ Synthesized
    /\ edge.kind = "off" /\ edge.from = ACTIVE
    /\ edge.frames = FADE_SAMPLES
    /\ Frames >= 2
    /\ EnvOf(Frames) = 0
    /\ EnvOf(Frames - 1) = 2
    /\ g_fade_state = IDLE

----------------------------------------------------------------------------
(* C3  Interrupted fade: when SetTXActive(false) interrupts a fade-in of    *)
(* which at least one frame was synthesized, the first frame of the         *)
(* fade-out has the envelope of the last fade-in frame, not 1.              *)
InterruptedFadeContinues ==
    [][ ( /\ edge.kind = "off" /\ edge.from = FADE_IN /\ edge.frames = 0
          /\ frame.st = FADE_IN
          /\ Synthesized' /\ Frames' >= 1 )
        => EnvOf(1)' = frame.env ]_vars

----------------------------------------------------------------------------
(* C4  Idempotent transition: SetTXActive(v) called while g_tx_active is    *)
(* already v changes nothing of the generator: no second phase reset and no *)
(* restart of the fade, whatever frames were synthesized in between.        *)
TransitionIdempotent ==
    [][ \A v \in BoolArgs :
          (SidetoneGen_SetTXActive(v) /\ g_tx_active = v) => UNCHANGED <<prog, hist>> ]_vars

\* SetTXActive(true) has just been repeated in the middle of a fade-in
TransitionIdempotentWitness ==
    /\ call.op = "SetTXActive"
    /\ g_tx_active = 1
    /\ g_fade_state = FADE_IN
    /\ g_fade_counter > 1
    /\ g_phase # 0

----------------------------------------------------------------------------
(* C5  Silence on missing providers: on an initialized generator and with a *)
(* non-null buffer, Generate(n) with the frequency or the volume callback   *)
(* missing writes zero to the 2n samples and leaves the phase, the fade     *)
(* state and the fade counter as they were, in every fade state.            *)
SilenceOnMissingProviders ==
    [][ ( /\ g_buffer # NULL
          /\ (g_getFreq = NULL \/ g_getVolume = NULL)
          /\ call'.op = "Generate"
          /\ out' # NoBuffer )
        => /\ UNCHANGED <<prog, hist>>
           /\ \A n \in NSamples, sr \in SampleRates :
                SidetoneGen_Generate(FreshBuffer, n, sr, FreqsBelow(sr))
                => out' = [c \in 1..BufCells |-> IF c <= 2 * n THEN Zero ELSE Unwritten] ]_vars

\* silence has just been written in the middle of a fade-out, one callback missing
SilenceOnMissingProvidersWitness ==
    /\ call.op = "Generate"
    /\ g_buffer # NULL
    /\ g_getFreq # NULL /\ g_getVolume = NULL
    /\ out = [c \in 1..BufCells |-> Zero]
    /\ g_fade_state = FADE_OUT
    /\ g_fade_counter > 1
    /\ g_phase # 0

----------------------------------------------------------------------------
(* C6  Generate is a no-op when its safety check fails: with a null buffer, *)
(* or with the generator not initialized (g_buffer NULL), it writes no      *)
(* sample and changes nothing, whatever callbacks are registered and        *)
(* whatever the transmit state is.                                          *)
GenerateRefusesSafely ==
    [][ (call'.op = "Generate" /\ (out' = NoBuffer \/ g_buffer = NULL))
        => /\ out' \in {NoBuffer, FreshBuffer}
           /\ UNCHANGED <<prog, hist>> ]_vars

\* Generate has just been refused on a generator whose allocation failed, with
\* transmit on and the callbacks registered
GenerateRefusesSafelyWitness ==
    /\ call.op = "Generate"
    /\ out = FreshBuffer
    /\ g_buffer = NULL /\ g_blocksize # 0
    /\ g_getFreq # NULL /\ g_getVolume # NULL
    /\ g_tx_active = 1 /\ g_fade_state = FADE_IN

----------------------------------------------------------------------------
(* C7  Activity query: IsActive returns true exactly when g_tx_active is    *)
(* set and an enabled callback is registered and returns true; the fade     *)
(* state plays no part, and the call changes nothing.                       *)
IsActiveQuery ==
    [][ \A en \in EnabledValues :
          SidetoneGen_IsActive(en)
          => /\ (call'.ret # 0) <=> (g_tx_active # 0 /\ g_getEnabled # NULL /\ en # 0)
             /\ UNCHANGED <<prog, hist>> ]_vars

\* IsActive has just returned true while the envelope is still 0
IsActiveQueryWitness ==
    /\ call.op = "IsActive"
    /\ call.ret = 1
    /\ g_fade_state = FADE_IN
    /\ g_fade_counter = 0

----------------------------------------------------------------------------
(* C8  Initialize resets all state: after every Initialize call, whether    *)
(* the allocation succeeded or failed, g_tx_active is 0, the phase is 0,    *)
(* the fade state is Idle and the fade counter is 0.                        *)
InitializeResets ==
    call.op = "Initialize" =>
        /\ g_tx_active = 0
        /\ g_phase = 0
        /\ g_fade_state = IDLE
        /\ g_fade_counter = 0

----------------------------------------------------------------------------
(* C9  Teardown clears everything and is idempotent: after Destroy the      *)
(* buffer is released, the transmit flag, phase, fade state and counter are *)
(* zero and the three callbacks are NULL; a second Destroy changes nothing; *)
(* until the next Initialize the buffer stays NULL, Generate is a no-op,    *)
(* and IsActive returns true only once SetTXActive(true) and SetCallbacks   *)
(* have been called again.                                                  *)
Cleared ==
    /\ g_buffer = NULL /\ g_blocksize = 0
    /\ g_tx_active = 0 /\ g_phase = 0
    /\ g_fade_state = IDLE /\ g_fade_counter = 0
    /\ g_getEnabled = NULL /\ g_getFreq = NULL /\ g_getVolume = NULL

\* no Initialize since the latest Destroy (or since the start)
TornDown == g_blocksize = 0

DestroyClears ==
    /\ [](call.op = "Destroy" => Cleared)
    /\ [](TornDown => g_buffer = NULL)
    /\ [][ (SidetoneGen_Destroy /\ call.op = "Destroy") => UNCHANGED vars ]_vars
    /\ [][ (TornDown /\ ~(\E b \in BlockSizes, ok \in BOOLEAN : SidetoneGen_Initialize(b, ok)))
           => TornDown' ]_vars
    /\ [][ (TornDown /\ call'.op = "Generate")
           => (out' \in {NoBuffer, FreshBuffer} /\ UNCHANGED <<prog, hist>>) ]_vars
    /\ [][ (TornDown /\ call'.op = "IsActive" /\ call'.ret # 0)
           => (g_tx_active = 1 /\ g_getEnabled # NULL) ]_vars

\* the generator has just been torn down
DestroyClearsWitness ==
    /\ call.op = "Destroy"
    /\ Cleared

----------------------------------------------------------------------------
(* C10  Phase wraparound: k frames synthesized from phase 0 with one phase  *)
(* increment delta, 0 <= delta < TwoPi, in any fade state and over any      *)
(* number of Generate calls, leave the phase at (k * delta) mod TwoPi; one  *)
(* conditional subtraction per frame is enough.                             *)
PhaseWraparound ==
    osc.k > 0 =>
        /\ osc.d \in 0..(TwoPi - 1)
        /\ g_phase = (osc.k * osc.d) % TwoPi

\* the phase has wrapped at least twice, all frames synthesized in Idle
PhaseWraparoundWitness ==
    /\ osc.k >= 3
    /\ osc.k * osc.d >= 2 * TwoPi
    /\ g_phase # 0
    /\ g_fade_state = IDLE
    /\ edge.kind = "none"

----------------------------------------------------------------------------
(* C11  Stereo interleave: a Generate(n) call that passes its safety check  *)
(* (buffer not NULL, generator initialized) writes exactly the 2n cells     *)
(* buffer[0 .. 2n-1] and nothing beyond them, and in every frame i < n the  *)
(* left cell buffer[2i] equals the right cell buffer[2i+1]; on the frame    *)
(* loop in every fade state, and on the silence path.                       *)
StereoInterleave ==
    (call.op = "Generate" /\ out # NoBuffer /\ g_buffer # NULL) =>
        LET n == call.arg[1] IN
        /\ Written = 1..(2 * n)
        /\ \A i \in 0..(n - 1) : out[2 * i + 1] = out[2 * i + 2]

\* one audible frame has just been written in the middle of a fade-out, into
\* a buffer that has room for more
StereoInterleaveWitness ==
    /\ Synthesized
    /\ Written = {1, 2}
    /\ out[1] = out[2]
    /\ out[1].env > 0 /\ out[1].vol = 1 /\ out[1].ph # 0
    /\ frame.st = FADE_OUT

----------------------------------------------------------------------------
(* C12  Edge effects: a SetTXActive call that changes the flag from false   *)
(* to true, in whatever fade state and at whatever counter, sets the phase  *)
(* to 0, the fade state to FadeIn and the counter to 0; one that changes it *)
(* from true to false sets the fade state to FadeOut and the counter to 0   *)
(* and leaves the phase as it was; neither touches the callbacks, the       *)
(* buffer or the block size.                                                *)
EdgeEffects ==
    [][ \A v \in BoolArgs :
          (g_tx_active # v /\ call'.op = "SetTXActive" /\ SidetoneGen_SetTXActive(v))
          => /\ g_tx_active' = v
             /\ v = 1 => (g_phase' = 0 /\ g_fade_state' = FADE_IN /\ g_fade_counter' = 0)
             /\ v = 0 => (g_phase' = g_phase /\ g_fade_state' = FADE_OUT /\ g_fade_counter' = 0)
             /\ UNCHANGED <<cbs, g_buffer, g_blocksize>> ]_vars

\* transmit has just been switched on again while the fade-out was running
EdgeEffectsWitness ==
    /\ call.op = "SetTXActive"
    /\ edge = [kind |-> "on", from |-> FADE_OUT, frames |-> 0]
    /\ g_tx_active = 1
    /\ g_phase = 0 /\ g_fade_state = FADE_IN /\ g_fade_counter = 0
    /\ g_buffer # NULL /\ g_getFreq # NULL /\ g_getVolume # NULL

----------------------------------------------------------------------------
(* C14  Sustain and Idle are stable under generation: a Generate call       *)
(* entered in Sustain writes every frame with envelope exactly 1 and leaves *)
(* the state Sustain; one entered in Idle writes every frame with envelope  *)
(* exactly 0 and leaves the state Idle.  Apart from the resets of           *)
(* Initialize and Destroy, Sustain is left only by a true-to-false          *)
(* SetTXActive and Idle only by a false-to-true SetTXActive.                *)
SteadyStatesStable ==
    [][ /\ (call'.op = "Generate" /\ g_fade_state = ACTIVE)
           => /\ g_fade_state' = ACTIVE
              /\ Synthesized' => \A j \in 1..Frames' : EnvOf(j)' = FADE_SAMPLES
        /\ (call'.op = "Generate" /\ g_fade_state = IDLE)
           => /\ g_fade_state' = IDLE
              /\ Synthesized' => \A j \in 1..Frames' : EnvOf(j)' = 0
        /\ (g_fade_state = ACTIVE /\ g_fade_state' # ACTIVE /\ call'.op \notin {"Initialize", "Destroy"})
           => (call'.op = "SetTXActive" /\ g_tx_active = 1 /\ g_tx_active' = 0)
        /\ (g_fade_state = IDLE /\ g_fade_state' # IDLE)
           => (call'.op = "SetTXActive" /\ g_tx_active = 0 /\ g_tx_active' = 1) ]_vars

\* a full block has just been synthesized in Sustain, after the fade-in ended
SteadyStatesStableWitness ==
    /\ Synthesized
    /\ Frames = MaxN
    /\ edge.kind = "on" /\ edge.frames = FADE_SAMPLES + MaxN
    /\ g_fade_state = ACTIVE
    /\ \A j \in 1..Frames : EnvOf(j) = FADE_SAMPLES

----------------------------------------------------------------------------
(* C15  Every fade completes within FADE_SAMPLES frames: after a SetTXActive *)
(* edge taken in whatever fade state, and with no further edge or reset,    *)
(* the state is still FadeIn (after on) or FadeOut (after off) while fewer  *)
(* than FADE_SAMPLES frames have been synthesized since the edge, however   *)
(* the frames are split into Generate calls, and it is Sustain (after on)   *)
(* or Idle (after off) once FADE_SAMPLES frames have been synthesized; the  *)
(* ramp never lasts longer.                                                 *)
FadeCompletes ==
    /\ edge.kind = "on" =>
          /\ edge.frames < FADE_SAMPLES => g_fade_state = FADE_IN
          /\ edge.frames >= FADE_SAMPLES => g_fade_state = ACTIVE
    /\ edge.kind = "off" =>
          /\ edge.frames < FADE_SAMPLES => g_fade_state = FADE_OUT
          /\ edge.frames >= FADE_SAMPLES => g_fade_state = IDLE

\* a fade-out that interrupted a fade-in has just ended, FADE_SAMPLES frames
\* after its edge
FadeCompletesWitness ==
    /\ Synthesized
    /\ Frames = MaxN
    /\ edge = [kind |-> "off", from |-> FADE_IN, frames |-> FADE_SAMPLES]
    /\ frame.st = FADE_OUT
    /\ g_fade_state = IDLE

----------------------------------------------------------------------------
(* C17  Transmit flag and fade state agree: with serialized calls and       *)
(* boolean arguments, in every reachable state (after any sequence of       *)
(* Initialize with the allocation succeeding or failing, Destroy,           *)
(* SetCallbacks, SetTXActive and Generate) g_tx_active is set exactly when  *)
(* the fade state is FadeIn or Sustain, and clear exactly when it is Idle   *)
(* or FadeOut; so a true-to-false edge is never taken in Idle.              *)
FlagAgreesWithFadeState ==
    /\ g_tx_active \in {0, 1}
    /\ g_fade_state \in {IDLE, FADE_IN, ACTIVE, FADE_OUT}
    /\ g_tx_active = 1 <=> g_fade_state \in {FADE_IN, ACTIVE}
    /\ g_tx_active = 0 <=> g_fade_state \in {IDLE, FADE_OUT}
    /\ edge.kind = "off" => edge.from # IDLE

\* an Initialize whose allocation failed has just returned in Sustain, the
\* flag and the fade state both left as they were
FlagAgreesWithFadeStateWitness ==
    /\ call.op = "Initialize"
    /\ g_buffer = NULL
    /\ g_tx_active = 1
    /\ g_fade_state = ACTIVE

----------------------------------------------------------------------------
(* The fade counter is within 0 .. FADE_SAMPLES, and during a fade it is    *)
(* below FADE_SAMPLES and equals the frames synthesized since the fade      *)
(* state was entered.                                                       *)
CounterInRange ==
    /\ g_fade_counter \in 0..FADE_SAMPLES
    /\ g_fade_state \in {FADE_IN, FADE_OUT} =>
          /\ g_fade_counter < FADE_SAMPLES
          /\ edge.kind # "none"
          /\ g_fade_counter = edge.frames

(* C18  Counter discipline as first stated: the counter is in range, counts *)
(* the frames of the running fade, and is 0 on entry to every fade state,   *)
(* the entries into Sustain and Idle made by Generate included.             *)
CounterZeroOnEveryEntry ==
    /\ []CounterInRange
    /\ [][ g_fade_state' # g_fade_state => g_fade_counter' = 0 ]_vars

(* C18  Counter discipline, amended: the counter is in range and counts the *)
(* frames of the running fade; it is 0 on entry to FadeIn and FadeOut and   *)
(* after the resets of Initialize and Destroy; on the entries into Sustain  *)
(* and Idle made by Generate it is left at FADE_SAMPLES.                    *)
CounterDiscipline ==
    /\ []CounterInRange
    /\ [][ g_fade_state' # g_fade_state =>
             IF call'.op = "Generate"
             THEN g_fade_state' \in {ACTIVE, IDLE} /\ g_fade_counter' = FADE_SAMPLES
             ELSE g_fade_counter' = 0 ]_vars

\* Generate has just taken the fade-out into Idle, the counter left at
\* FADE_SAMPLES
CounterDisciplineWitness ==
    /\ Synthesized
    /\ frame.st = FADE_OUT
    /\ g_fade_state = IDLE
    /\ g_fade_counter = FADE_SAMPLES
    /\ edge.frames = FADE_SAMPLES

----------------------------------------------------------------------------
(* C16  Phase range as first stated: in every reachable state the phase is  *)
(* in [0, TwoPi), whatever frequency the provider returns, frequencies at   *)
(* or above the sample rate and negative frequencies included.              *)
PhaseAlwaysInRange == g_phase \in 0..(TwoPi - 1)

(* C16  Phase range, amended: a Generate call whose phase increment is in   *)
(* [0, TwoPi) and which starts with the phase in [0, TwoPi) leaves it in    *)
(* [0, TwoPi); every other call leaves the phase as it was or sets it to 0. *)
(* With an increment outside [0, TwoPi) the phase leaves the range.         *)
PhaseStaysInRange ==
    [][ /\ ( /\ call'.op = "Generate" /\ Len(call'.arg) = 3
             /\ call'.arg[2] \in 0..(TwoPi - 1)
             /\ g_phase \in 0..(TwoPi - 1) )
           => g_phase' \in 0..(TwoPi - 1)
        /\ call'.op # "Generate" => g_phase' \in {g_phase, 0} ]_vars

\* a full block has just been synthesized with an increment below TwoPi,
\* and the phase has wrapped back into range
PhaseStaysInRangeWitness ==
    /\ Synthesized
    /\ call.arg[1] = MaxN
    /\ call.arg[2] \in 1..(TwoPi - 1)
    /\ out[1].ph \in 1..(TwoPi - 1)
    /\ g_phase \in 0..(TwoPi - 1)
    /\ g_phase < out[1].ph

----------------------------------------------------------------------------
(* C13  Unserialized calls are unsafe: when the writes of a SetTXActive     *)
(* call interleave with the reads and writes of a Generate frame, states    *)
(* become reachable that serialized calls never reach: the transmit flag    *)
(* clear with the fade state Sustain, or a fade-out that is in Idle fewer   *)
(* than FADE_SAMPLES frames after its edge.  As long as every SetTXActive   *)
(* call has run between two frames, neither state is reached.               *)

\* no thread is inside SetTXActive or inside a frame
Quiescent == host.pc = "idle" /\ BetweenFrames

TornSustain == g_tx_active = 0 /\ g_fade_state = ACTIVE
ShortFadeOut == edge.kind = "off" /\ g_fade_state = IDLE /\ edge.frames < FADE_SAMPLES

NoTearWithoutOverlap ==
    (Quiescent /\ (TornSustain \/ ShortFadeOut)) => raced

\* a SetTXActive(false) call has run between the counter test of the last
\* fade-in frame and its write of the fade state: the flag is clear, the
\* state is Sustain, and no fade-out is pending
NoTearWithoutOverlapWitness ==
    /\ Quiescent
    /\ audio.pc = "idle"
    /\ raced
    /\ TornSustain
    /\ edge.kind = "off" /\ edge.from = FADE_IN
    /\ g_fade_counter = 0

----------------------------------------------------------------------------
(* C19  The enabled flag does not gate generation: two runs given the same  *)
(* calls and the same frequency and volume values, which differ in the      *)
(* enabled callback registered or in what it returns, have after every call *)
(* the same output buffer, phase, fade state and fade counter (and transmit *)
(* flag); only the result of IsActive can differ.  So a tone is             *)
(* synthesized while IsActive returns false.                                *)
EnabledDoesNotGate ==
    /\ twin.out = out
    /\ twin.phase = g_phase
    /\ twin.fade_state = g_fade_state
    /\ twin.fade_counter = g_fade_counter
    /\ twin.tx = g_tx_active
    /\ call.op # "IsActive" => twin.ret = call.ret

\* an audible frame has just been synthesized in both runs; the first has
\* no enabled callback, so its IsActive returns false whatever is asked,
\* and the second has one
EnabledDoesNotGateWitness ==
    /\ Synthesized
    /\ Frames >= 1
    /\ out[1].vol = 1 /\ out[1].env > 0 /\ out[1].ph # 0
    /\ twin.out = out
    /\ g_tx_active = 1
    /\ g_getEnabled = NULL
    /\ \A en \in EnabledValues : IsActiveResult(en) = 0
    /\ twin.getEnabled # NULL

====
